---- MODULE Spec2Model ----
(***************************************************************************)
(* Model of src/main.py: the market-structure crisis detector.             *)
(*                                                                         *)
(* The script is one synchronous batch run:                                *)
(*   fetch_and_process_data -> calculate_indicators -> evaluate_logic      *)
(*   -> print_report.                                                      *)
(*                                                                         *)
(* Numbers.  pandas/numpy work on IEEE doubles.  The model keeps every     *)
(* number as an exact rational <<n, d>> with d > 0, reduced to lowest      *)
(* terms, and keeps NaN as the distinct value <<0, 0>>.  NaN propagates    *)
(* through arithmetic and every ordered comparison with NaN is FALSE, as   *)
(* in numpy.  Rounding of doubles is outside the model.                    *)
(***************************************************************************)
EXTENDS Integers, Sequences, FiniteSets

VARIABLES
    provider,       \* what yf.download will answer: [fails, Close]
    lowTolerance,   \* the low-tolerance factor the operator configured
    df,             \* the aligned table (raw_data.dropna())
    indicators,     \* result of calculate_indicators
    logic,          \* result of evaluate_logic
    report,         \* what print_report printed: analyses, level
    pc,             \* position of __main__
    exit_status     \* status the process ends with

vars == <<provider, lowTolerance, df, indicators, logic, report, pc, exit_status>>

----------------------------------------------------------------------------
(* Floats: exact rationals plus NaN *)

NaN == <<0, 0>>

IsNaN(x) == x[2] = 0

Abs(a) == IF a < 0 THEN -a ELSE a

RECURSIVE GCD(_, _)
GCD(a, b) == IF b = 0 THEN a ELSE GCD(b, a % b)

\* the rational n/d (d # 0) in lowest terms with a positive denominator
Rat(n, d) ==
    LET g == GCD(Abs(n), Abs(d))
        s == IF d < 0 THEN -1 ELSE 1
    IN  <<(s * n) \div g, (s * d) \div g>>

Num(k) == <<k, 1>>

FAdd(a, b) ==
    IF IsNaN(a) \/ IsNaN(b) THEN NaN
    ELSE Rat(a[1] * b[2] + b[1] * a[2], a[2] * b[2])

FSub(a, b) ==
    IF IsNaN(a) \/ IsNaN(b) THEN NaN
    ELSE Rat(a[1] * b[2] - b[1] * a[2], a[2] * b[2])

FMul(a, b) ==
    IF IsNaN(a) \/ IsNaN(b) THEN NaN
    ELSE Rat(a[1] * b[1], a[2] * b[2])

\* prices are positive, so no divisor of the script is ever zero; 0/0 is NaN
FDiv(a, b) ==
    IF IsNaN(a) \/ IsNaN(b) \/ b[1] = 0 THEN NaN
    ELSE Rat(a[1] * b[2], a[2] * b[1])

FLt(a, b) == ~IsNaN(a) /\ ~IsNaN(b) /\ a[1] * b[2] < b[1] * a[2]
FLe(a, b) == ~IsNaN(a) /\ ~IsNaN(b) /\ a[1] * b[2] <= b[1] * a[2]
FGt(a, b) == FLt(b, a)
FGe(a, b) == FLe(b, a)

----------------------------------------------------------------------------
(* The configuration map of the script (lines 8-16) *)

TICKERS == {"XLG", "RSP", "HYG", "IEF", "JPY=X", "^GSPC"}
DISTORTION_THRESHOLD == <<15, 100>>
CREDIT_LOOKBACK == 20
YEN_SHOCK_THRESHOLD == <<-3, 100>>
RATE_SHOCK_THRESHOLD == <<-2, 100>>
SPX_FILTER_THRESHOLD == <<0, 1>>

\* the inline windows and the inline tolerance literal
DISTORTION_WINDOW == 200
SPX_WINDOW == 50
SPX_CHANGE_PERIODS == 10
YEN_PERIODS == 5
RATE_PERIODS == 10
CREDIT_LOW_FACTOR == <<10001, 10000>>

----------------------------------------------------------------------------
(* pandas operations.  A Series is a function on 1..n; n is passed along   *)
(* where it is needed.                                                     *)

Column(table, t) == [i \in 1..Len(table) |-> table[i].Close[t]]

SeriesDiv(a, b, n) == [i \in 1..n |-> FDiv(a[i], b[i])]
SeriesSubScalar(a, k, n) == [i \in 1..n |-> FSub(a[i], k)]

\* sum and minimum of s[lo..hi], by halving (exact arithmetic is associative)
RECURSIVE SumRange(_, _, _)
SumRange(s, lo, hi) ==
    IF lo > hi THEN Num(0)
    ELSE IF lo = hi THEN s[lo]
    ELSE LET mid == (lo + hi) \div 2
         IN  FAdd(SumRange(s, lo, mid), SumRange(s, mid + 1, hi))

FMin(a, b) ==
    IF IsNaN(a) \/ IsNaN(b) THEN NaN ELSE IF FLt(b, a) THEN b ELSE a

RECURSIVE MinRange(_, _, _)
MinRange(s, lo, hi) ==
    IF lo = hi THEN s[lo]
    ELSE LET mid == (lo + hi) \div 2
         IN  FMin(MinRange(s, lo, mid), MinRange(s, mid + 1, hi))

\* a mean over the whole history so far instead of the last w rows
ExpandingMeanAt(s, w, i) ==
    IF i < w THEN NaN ELSE FDiv(SumRange(s, 1, i), Num(i))

\* Series.rolling(w).mean(): NaN until w observations are in the window
RollingMeanAt(s, w, i) ==
    IF i < w THEN NaN ELSE FDiv(SumRange(s, i - w + 1, i), Num(w))

RollingMean(s, w, n) == [i \in 1..n |-> RollingMeanAt(s, w, i)]

\* Series.rolling(w).min()
RollingMinAt(s, w, i) ==
    IF i < w THEN NaN ELSE MinRange(s, i - w + 1, i)

RollingMin(s, w, n) == [i \in 1..n |-> RollingMinAt(s, w, i)]

\* Series.pct_change(k): s[i] / s[i-k] - 1, NaN for the first k rows
PctChange(s, k, n) ==
    [i \in 1..n |-> IF i <= k THEN NaN ELSE FSub(FDiv(s[i], s[i - k]), Num(1))]

\* DataFrame.dropna(): keep the rows without any NaN, in order
RowComplete(row) == \A t \in TICKERS : ~IsNaN(row.Close[t])

\* dropna(how='all'): only rows without any observation are dropped
RowNotEmpty(row) == \E t \in TICKERS : ~IsNaN(row.Close[t])

DropNaHowAll(table) == SelectSeq(table, RowNotEmpty)

DropNa(table) == SelectSeq(table, RowComplete)

----------------------------------------------------------------------------
(* The provider's answers the model explores.  Every instrument's series   *)
(* has up to three flat segments, read from the latest row backwards: the  *)
(* last kNew rows at `new`, the kMid rows before them at `mid`, all older  *)
(* rows at `old`.  A profile is <<old, mid, new, kMid, kNew>>.             *)

MaxRows == 201

\* lengths on both sides of every window of the script, and beyond the longest
RowCounts ==
    {0, 1, YEN_PERIODS, YEN_PERIODS + 1, RATE_PERIODS, RATE_PERIODS + 1,
     CREDIT_LOOKBACK - 1, CREDIT_LOOKBACK, SPX_WINDOW - 1, SPX_WINDOW,
     150, DISTORTION_WINDOW - 1} \cup (DISTORTION_WINDOW..MaxRows)

Seg(p, d) ==
    IF d < p[5] THEN p[3] ELSE IF d < p[5] + p[4] THEN p[2] ELSE p[1]

\* XLG against a constant RSP of 100
XlgProfile(k) ==
    CASE k = "flat" -> <<120, 120, 120, 0, 0>>
      [] k = "edge" -> <<1700, 1700, 2300, 0, 100>>    \* gap exactly 0.15
      [] k = "over" -> <<1000, 1000, 3000, 0, 100>>    \* gap 0.5

\* the HYG/IEF ratio; HYG is priced as ratio * IEF
CreditProfile(k) ==
    CASE k = "flat" -> <<20000, 20000, 20000, 0, 0>>
      [] k = "drop" -> <<20000, 20000, 10000, 0, 1>>   \* new 20-row low
      [] k = "near" -> <<20000, 10000, 10001, 1, 1>>   \* low * 1.0001 exactly
      [] k = "off"  -> <<20000, 10000, 10002, 1, 1>>   \* just above it

IefProfile(k) ==
    CASE k = "flat"  -> <<50, 50, 50, 0, 0>>
      [] k = "edge"  -> <<50, 50, 49, 0, 1>>           \* exactly -2%
      [] k = "crash" -> <<50, 50, 25, 0, 1>>

SpxProfile(k) ==
    CASE k = "flat" -> <<100, 100, 100, 0, 0>>
      [] k = "up"   -> <<100, 100, 110, 0, 1>>
      [] k = "down" -> <<100, 100, 90, 0, 1>>
      [] k = "pull" -> <<100, 130, 120, 10, 1>>        \* above MA50, below 10 rows ago

JpyProfile(k) ==
    CASE k = "flat"  -> <<100, 100, 100, 0, 0>>
      [] k = "edge"  -> <<100, 100, 97, 0, 1>>         \* exactly -3%
      [] k = "surge" -> <<100, 100, 90, 0, 1>>

Scenarios ==
    [xlg : {"flat", "edge", "over"},
     credit : {"flat", "drop", "near", "off"},
     ief : {"flat", "edge", "crash"},
     spx : {"flat", "up", "down", "pull"},
     jpy : {"flat", "edge", "surge"}]

CornerScenarios ==
    {[xlg |-> "flat", credit |-> "flat", ief |-> "flat", spx |-> "flat", jpy |-> "flat"],
     [xlg |-> "over", credit |-> "drop", ief |-> "crash", spx |-> "pull", jpy |-> "surge"],
     [xlg |-> "edge", credit |-> "near", ief |-> "edge", spx |-> "down", jpy |-> "edge"]}

\* price of ticker t in the row d rows before the latest
Price(s, t, d) ==
    CASE t = "XLG"   -> Seg(XlgProfile(s.xlg), d)
      [] t = "RSP"   -> 100
      [] t = "HYG"   -> Seg(CreditProfile(s.credit), d) * Seg(IefProfile(s.ief), d)
      [] t = "IEF"   -> Seg(IefProfile(s.ief), d)
      [] t = "JPY=X" -> Seg(JpyProfile(s.jpy), d)
      [] t = "^GSPC" -> Seg(SpxProfile(s.spx), d)

\* which observations the provider lacks (holidays, a ticker that failed)
HolePatterns == {"none", "last", "odd", "all"}

Missing(h, i, n, t) ==
    CASE h = "none" -> FALSE
      [] h = "last" -> i = n /\ t = "JPY=X"
      [] h = "odd"  -> i % 2 = 1 /\ t = "RSP"
      [] h = "all"  -> t = "^GSPC"

MakeTable(n, s, h) ==
    [i \in 1..n |->
        [date |-> i,
         Close |-> [t \in TICKERS |->
                      IF Missing(h, i, n, t) THEN NaN ELSE Num(Price(s, t, n - i))]]]

DefaultLowTolerance == <<1, 10000>>
LowToleranceChoices == {DefaultLowTolerance, <<1, 1000>>}

\* every scenario on a full, gap-free history; the corner scenarios on every
\* length and every hole pattern; another tolerance on the 200-row histories
InputFamily(n, s, h, tol) ==
    /\ \/ n >= DISTORTION_WINDOW /\ h = "none"
       \/ s \in CornerScenarios
    /\ tol = DefaultLowTolerance \/ n = DISTORTION_WINDOW

----------------------------------------------------------------------------
(* State before and between the steps *)

NoIndicators ==
    [distortion |-> [val |-> NaN, baseline |-> NaN, gap |-> NaN],
     credit |-> [val |-> NaN, ma20 |-> NaN, min20 |-> NaN],
     spx |-> [price |-> NaN, ma50 |-> NaN, change_10d |-> NaN],
     yen_change_5d |-> NaN,
     ief_change_10d |-> NaN]

NoLogic ==
    [condition |-> FALSE, trigger_a |-> FALSE, trigger_b |-> FALSE, trigger_c |-> FALSE]

NoReport ==
    [printed |-> FALSE, distortion |-> "", credit |-> "", liquidity |-> "",
     rate |-> "", level |-> ""]

Init ==
    /\ \/ /\ provider = [fails |-> TRUE, Close |-> <<>>]
          /\ lowTolerance = DefaultLowTolerance
       \/ \E n \in RowCounts, s \in Scenarios, h \in HolePatterns,
             tol \in LowToleranceChoices :
             /\ InputFamily(n, s, h, tol)
             /\ provider = [fails |-> FALSE, Close |-> MakeTable(n, s, h)]
             /\ lowTolerance = tol
    /\ df = <<>>
    /\ indicators = NoIndicators
    /\ logic = NoLogic
    /\ report = NoReport
    /\ pc = "fetch"
    /\ exit_status = 0

----------------------------------------------------------------------------
(* fetch_and_process_data, lines 18-40 *)

FetchAndProcessData ==
    /\ pc = "fetch"
    /\ \/ /\ provider.fails                         \* except: sys.exit(1)
          /\ pc' = "done"
          /\ exit_status' = 1
          /\ df' = df
       \/ /\ ~provider.fails
          /\ DropNa(provider.Close) = <<>>          \* df.empty: sys.exit(1)
          /\ pc' = "done"
          /\ exit_status' = 1
          /\ df' = df
       \/ /\ ~provider.fails
          /\ DropNa(provider.Close) # <<>>
          /\ df' = DropNa(provider.Close)
          /\ pc' = "calculate"
          /\ exit_status' = exit_status
    /\ UNCHANGED <<provider, lowTolerance, indicators, logic, report>>

(* calculate_indicators, lines 42-81 *)

Indicators(table) ==
    LET n == Len(table)
        distortion_ratio == SeriesDiv(Column(table, "XLG"), Column(table, "RSP"), n)
        baseline_200 == RollingMean(distortion_ratio, DISTORTION_WINDOW, n)
        current_gap == SeriesSubScalar(SeriesDiv(distortion_ratio, baseline_200, n), Num(1), n)
        credit_ratio == SeriesDiv(Column(table, "HYG"), Column(table, "IEF"), n)
        credit_ma20 == RollingMean(credit_ratio, CREDIT_LOOKBACK, n)
        credit_min20 == RollingMin(credit_ratio, CREDIT_LOOKBACK, n)
        spx_price == Column(table, "^GSPC")
        spx_ma50 == RollingMean(spx_price, SPX_WINDOW, n)
    IN  [distortion |-> [val |-> distortion_ratio[n],
                         baseline |-> baseline_200[n],
                         gap |-> current_gap[n]],
         credit |-> [val |-> credit_ratio[n],
                     ma20 |-> credit_ma20[n],
                     min20 |-> credit_min20[n]],
         spx |-> [price |-> spx_price[n],
                  ma50 |-> spx_ma50[n],
                  change_10d |-> PctChange(spx_price, SPX_CHANGE_PERIODS, n)[n]],
         yen_change_5d |-> PctChange(Column(table, "JPY=X"), YEN_PERIODS, n)[n],
         ief_change_10d |-> PctChange(Column(table, "IEF"), RATE_PERIODS, n)[n]]

CalculateIndicators ==
    /\ pc = "calculate"
    /\ indicators' = Indicators(df)
    /\ pc' = "evaluate"
    /\ UNCHANGED <<provider, lowTolerance, df, logic, report, exit_status>>

(* evaluate_logic, lines 83-108 *)

\* a strict comparison where the script's is inclusive
IsDistortedStrict(ind) == FGt(ind.distortion.gap, DISTORTION_THRESHOLD)

IsDistorted(ind) == FGe(ind.distortion.gap, DISTORTION_THRESHOLD)

IsCreditLow(ind) == FLe(ind.credit.val, FMul(ind.credit.min20, CREDIT_LOW_FACTOR))

TriggerA(ind) ==
    /\ FLt(ind.credit.val, ind.credit.ma20)
    /\ IsCreditLow(ind)
    /\ FGt(ind.spx.price, ind.spx.ma50)

\* an inclusive comparison where the script's is strict
TriggerBInclusive(ind) == FLe(ind.yen_change_5d, YEN_SHOCK_THRESHOLD)

TriggerB(ind) == FLt(ind.yen_change_5d, YEN_SHOCK_THRESHOLD)

\* the benchmark filter taken inclusively
TriggerCInclusiveFilter(ind) ==
    /\ FLt(ind.ief_change_10d, RATE_SHOCK_THRESHOLD)
    /\ FLe(ind.spx.change_10d, SPX_FILTER_THRESHOLD)

TriggerC(ind) ==
    /\ FLt(ind.ief_change_10d, RATE_SHOCK_THRESHOLD)
    /\ FLt(ind.spx.change_10d, SPX_FILTER_THRESHOLD)

Logic(ind) ==
    [condition |-> IsDistorted(ind),
     trigger_a |-> TriggerA(ind),
     trigger_b |-> TriggerB(ind),
     trigger_c |-> TriggerC(ind)]

EvaluateLogic ==
    /\ pc = "evaluate"
    /\ logic' = Logic(indicators)
    /\ pc' = "report"
    /\ UNCHANGED <<provider, lowTolerance, df, indicators, report, exit_status>>

(* print_report, lines 110-215 *)

\* the WARNING branch tested before the CRITICAL one
ClassifyWarningFirst(flags) ==
    IF flags.trigger_c THEN "WARNING"
    ELSE IF flags.trigger_a \/ flags.trigger_b THEN "CRITICAL"
    ELSE IF flags.condition THEN "OVERHEATED"
    ELSE "NORMAL"

\* the OVERHEATED branch tested before the WARNING one
ClassifyOverheatedFirst(flags) ==
    IF flags.trigger_a \/ flags.trigger_b THEN "CRITICAL"
    ELSE IF flags.condition THEN "OVERHEATED"
    ELSE IF flags.trigger_c THEN "WARNING"
    ELSE "NORMAL"

\* the final judgment, lines 197-209
Classify(flags) ==
    IF flags.trigger_a \/ flags.trigger_b THEN "CRITICAL"
    ELSE IF flags.trigger_c THEN "WARNING"
    ELSE IF flags.condition THEN "OVERHEATED"
    ELSE "NORMAL"

\* the analysis printed under each section
DistortionAnalysis(inds, flags) ==
    IF flags.condition THEN "danger"
    ELSE IF FGt(inds.distortion.gap, Num(0)) THEN "normal_range" ELSE "resolved"

CreditAnalysis(inds, flags) ==
    IF flags.trigger_a THEN "danger"
    ELSE IF FGe(inds.credit.val, inds.credit.ma20) THEN "bullish" ELSE "correction"

LiquidityAnalysis(inds, flags) ==
    IF flags.trigger_b THEN "danger"
    ELSE IF FGt(inds.yen_change_5d, Num(0)) THEN "yen_weak" ELSE "usual_range"

RateAnalysis(inds, flags) ==
    IF flags.trigger_c THEN "bad_rate_spike"
    ELSE IF FLt(inds.ief_change_10d, RATE_SHOCK_THRESHOLD) THEN "good_rate_rise"
    ELSE "calm"

PrintReport ==
    /\ pc = "report"
    /\ report' = [printed |-> TRUE,
                  distortion |-> DistortionAnalysis(indicators, logic),
                  credit |-> CreditAnalysis(indicators, logic),
                  liquidity |-> LiquidityAnalysis(indicators, logic),
                  rate |-> RateAnalysis(indicators, logic),
                  level |-> Classify(logic)]
    /\ pc' = "done"
    /\ UNCHANGED <<provider, lowTolerance, df, indicators, logic, exit_status>>

Next ==
    \/ FetchAndProcessData
    \/ CalculateIndicators
    \/ EvaluateLogic
    \/ PrintReport

Spec == Init /\ [][Next]_vars

----------------------------------------------------------------------------
(* Properties *)

Calculated == pc \in {"evaluate", "report"} \/ report.printed
Evaluated == pc = "report" \/ report.printed

Levels == {"NORMAL", "OVERHEATED", "WARNING", "CRITICAL"}

Rank(level) ==
    CASE level = "NORMAL" -> 1
      [] level = "OVERHEATED" -> 2
      [] level = "WARNING" -> 3
      [] level = "CRITICAL" -> 4

FlagSets ==
    [condition : BOOLEAN, trigger_a : BOOLEAN, trigger_b : BOOLEAN, trigger_c : BOOLEAN]

\* every flag that is true in f is true in g
FlagsBelow(f, g) ==
    /\ f.condition => g.condition
    /\ f.trigger_a => g.trigger_a
    /\ f.trigger_b => g.trigger_b
    /\ f.trigger_c => g.trigger_c

SnapshotValues(ind) ==
    {ind.distortion.val, ind.distortion.baseline, ind.distortion.gap,
     ind.credit.val, ind.credit.ma20, ind.credit.min20,
     ind.spx.price, ind.spx.ma50, ind.spx.change_10d,
     ind.yen_change_5d, ind.ief_change_10d}

FullyDefined(ind) == \A x \in SnapshotValues(ind) : ~IsNaN(x)

\* the aligned table the provider's answer determines
Aligned == {provider.Close[i] : i \in {j \in 1..Len(provider.Close) : RowComplete(provider.Close[j])}}

\* C1: the printed level is exactly the first match of the priority list:
\* CRITICAL if triggerA or triggerB, else WARNING if triggerC, else OVERHEATED
\* if distortionCondition, else NORMAL.
C1_FirstMatchPriority ==
    report.printed =>
        /\ report.level \in Levels
        /\ (logic.trigger_a \/ logic.trigger_b) => report.level = "CRITICAL"
        /\ (~logic.trigger_a /\ ~logic.trigger_b /\ logic.trigger_c)
              => report.level = "WARNING"
        /\ (~logic.trigger_a /\ ~logic.trigger_b /\ ~logic.trigger_c /\ logic.condition)
              => report.level = "OVERHEATED"
        /\ (~logic.trigger_a /\ ~logic.trigger_b /\ ~logic.trigger_c /\ ~logic.condition)
              => report.level = "NORMAL"

C1_Witness ==
    /\ report.printed
    /\ logic.trigger_a /\ ~logic.trigger_b /\ logic.trigger_c /\ logic.condition
    /\ report.level = "CRITICAL"

\* C2: once the indicators are computed the history covered every window and
\* the snapshot holds no undefined value (the computation fails otherwise).
C2_NoUndefinedSnapshot ==
    Calculated => Len(df) >= DISTORTION_WINDOW /\ FullyDefined(indicators)

\* C3: a finished run ended non-zero without a report exactly when the
\* provider failed, the aligned table was empty or the history was shorter
\* than a window; otherwise it ended with status 0 after the report.
C3_ExitBehaviour ==
    pc = "done" =>
        LET failure == \/ provider.fails
                       \/ Aligned = {}
                       \/ Cardinality(Aligned) < DISTORTION_WINDOW
        IN  /\ failure => exit_status # 0 /\ ~report.printed
            /\ ~failure => exit_status = 0 /\ report.printed

\* C4: on a fully defined snapshot triggerA is creditRatio < creditMA and
\* creditRatio <= creditMin * (1 + lowTolerance) and benchmarkPrice >
\* benchmarkMA50, for the configured lowTolerance.
C4_TriggerAConfiguredTolerance ==
    (Evaluated /\ FullyDefined(indicators)) =>
        (logic.trigger_a <=>
            /\ FLt(indicators.credit.val, indicators.credit.ma20)
            /\ FLe(indicators.credit.val,
                   FMul(indicators.credit.min20, FAdd(Num(1), lowTolerance)))
            /\ FGt(indicators.spx.price, indicators.spx.ma50))

\* C5: triggerC is true exactly when the 10-row change of IEF is strictly
\* below -0.02 and the 10-row change of the benchmark is strictly below 0; a
\* rate crash with a benchmark change of 0 or more never sets it and the
\* report is then not WARNING on its account.
C5_TriggerC ==
    LET ief == indicators.ief_change_10d
        spx == indicators.spx.change_10d
        crash == ~IsNaN(ief) /\ ief[1] * 100 < -2 * ief[2]
        down == ~IsNaN(spx) /\ spx[1] < 0
    IN  /\ Evaluated => (logic.trigger_c <=> (crash /\ down))
        /\ (report.printed /\ crash /\ ~down) =>
              /\ ~logic.trigger_c
              /\ report.level # "WARNING"
              /\ report.rate = "good_rate_rise"

C5_Witness ==
    /\ report.printed
    /\ FullyDefined(indicators)
    /\ indicators.ief_change_10d = <<-1, 2>>
    /\ indicators.spx.change_10d = <<0, 1>>
    /\ ~logic.trigger_c
    /\ report.level = "NORMAL"

C7_TriggerBStrict ==
    LET yen == indicators.yen_change_5d
        n == Len(df)
    IN  /\ (Calculated /\ n > YEN_PERIODS) =>
              yen = FSub(FDiv(df[n].Close["JPY=X"], df[n - YEN_PERIODS].Close["JPY=X"]),
                         Num(1))
        /\ Evaluated =>
              /\ logic.trigger_b <=> (~IsNaN(yen) /\ yen[1] * 100 < -3 * yen[2])
              /\ yen = <<-3, 100>> => ~logic.trigger_b
        /\ (report.printed /\ yen = <<-3, 100>> /\ ~logic.trigger_a) =>
              report.level # "CRITICAL"

C7_Witness ==
    /\ report.printed
    /\ indicators.yen_change_5d = <<-3, 100>>
    /\ ~logic.trigger_b
    /\ report.level # "CRITICAL"

\* C8: with at least 200 aligned rows the snapshot calculate_indicators
\* returns has as ratio XLG/RSP of the last row, as baseline the mean of the
\* ratio over the last 200 rows alone (earlier rows have no influence), and
\* gap = ratio/baseline - 1; a constant 120/100 history gives ratio 1.2,
\* baseline 1.2 and gap 0.
C8_DistortionSnapshot ==
    (pc = "evaluate" /\ Len(df) >= DISTORTION_WINDOW) =>
        LET n == Len(df)
            d == indicators.distortion
            ratioAt(i) == FDiv(df[i].Close["XLG"], df[i].Close["RSP"])
            ratios == [i \in 1..n |-> ratioAt(i)]
            last200 == SubSeq(df, n - DISTORTION_WINDOW + 1, n)
            constant == \A i \in 1..n : /\ df[i].Close["XLG"] = Num(120)
                                         /\ df[i].Close["RSP"] = Num(100)
        IN  /\ d.val = ratioAt(n)
            /\ ~IsNaN(d.baseline)
            /\ FMul(d.baseline, Num(DISTORTION_WINDOW))
                  = SumRange(ratios, n - DISTORTION_WINDOW + 1, n)
            /\ d.baseline = Indicators(last200).distortion.baseline
            /\ FMul(FAdd(d.gap, Num(1)), d.baseline) = d.val
            /\ constant => d.val = <<6, 5>> /\ d.baseline = <<6, 5>> /\ d.gap = <<0, 1>>

C8_Witness ==
    /\ pc = "evaluate"
    /\ Len(df) > DISTORTION_WINDOW
    /\ indicators.distortion.val = <<23, 1>>
    /\ indicators.distortion.baseline = <<20, 1>>
    /\ indicators.distortion.gap = <<3, 20>>

\* C9: the aligned table handed to calculate_indicators holds exactly the
\* provider's fully populated rows, unchanged and in their order (no value
\* is filled in), and it is not empty.
C9_AlignedTable ==
    pc = "calculate" =>
        /\ {df[i] : i \in 1..Len(df)} = Aligned
        /\ \A i \in 1..Len(df) : RowComplete(df[i])
        /\ \A i \in 1..(Len(df) - 1) : df[i].date < df[i + 1].date
        /\ Len(df) > 0

C9_Witness ==
    /\ pc = "calculate"
    /\ Len(df) > 0
    /\ Len(df) < Len(provider.Close)

\* C10: the level is monotone in the flags under NORMAL < OVERHEATED <
\* WARNING < CRITICAL; WARNING is reported only with triggerA and triggerB
\* false, OVERHEATED only with all three triggers false.
C10_Monotone ==
    report.printed =>
        /\ \A g \in FlagSets :
              FlagsBelow(logic, g) => Rank(report.level) <= Rank(Classify(g))
        /\ \A f \in FlagSets :
              FlagsBelow(f, logic) => Rank(Classify(f)) <= Rank(report.level)
        /\ report.level = "WARNING" => ~logic.trigger_a /\ ~logic.trigger_b
        /\ report.level = "OVERHEATED" =>
              ~logic.trigger_a /\ ~logic.trigger_b /\ ~logic.trigger_c

C10_Witness ==
    /\ report.printed
    /\ report.level = "WARNING"
    /\ logic.condition /\ logic.trigger_c

====
